---- MODULE Spec2Model ----
(***************************************************************************)
(* Model of vnl_parser.py: the OCR tokenizer, the numeric extractor, the   *)
(* scoring and simple-total parsers, the team aggregator, the match        *)
(* differ and the sequential dataset builder.                              *)
(*                                                                         *)
(* Text is a sequence of one-character strings.  A path is the sequence    *)
(* of the directory's characters followed by "/" and the file name.  A     *)
(* Python call that may raise returns a record with an ok flag: the value  *)
(* when ok, the exception otherwise.                                       *)
(***************************************************************************)
EXTENDS Integers, Sequences, FiniteSets, TLC

VARIABLES
    fs,           \* the file system: path -> image (decodable flag and OCR text)
    match_specs,  \* build_dataset: the list of "dir:label" strings
    i,            \* build_dataset: number of specifications taken from the list
    rows,         \* build_dataset: the local list `rows`
    output_file,  \* build_dataset: the CSV file at `output_file`
    error,        \* build_dataset: the exception that left it, if any
    pc,           \* position of the running call
    arg,          \* argument of a directly called parser function
    ret           \* what the directly called parser function returned

vars == <<fs, match_specs, i, rows, output_file, error, pc, arg, ret>>

----------------------------------------------------------------------------
(* Data structures *)

TEAM_SCREENS == <<"scoring", "attack", "block", "serve", "reception", "dig", "set">>

Range(f) == {f[k] : k \in DOMAIN f}

SeqsUpTo(S, n) == UNION {[1..k -> S] : k \in 0..n}

Digits == {"0", "1", "2", "3", "4", "5", "6", "7", "8", "9"}

DigitValue(c) ==
    CASE c = "0" -> 0 [] c = "1" -> 1 [] c = "2" -> 2 [] c = "3" -> 3
      [] c = "4" -> 4 [] c = "5" -> 5 [] c = "6" -> 6 [] c = "7" -> 7
      [] c = "8" -> 8 [] c = "9" -> 9

Ok(v) == [ok |-> TRUE, value |-> v]

Raise(type, msg, subject) ==
    [ok |-> FALSE, error |-> [type |-> type, msg |-> msg, subject |-> subject]]

NoError == [type |-> "none", msg |-> "", subject |-> <<>>]

----------------------------------------------------------------------------
(* Python built-ins used by the module *)

\* str.splitlines(): the pieces between line breaks, no empty last piece.
RECURSIVE splitlines_from(_, _, _)
splitlines_from(text, k, cur) ==
    IF k > Len(text) THEN (IF cur = <<>> THEN <<>> ELSE <<cur>>)
    ELSE IF text[k] = "\n" THEN <<cur>> \o splitlines_from(text, k + 1, <<>>)
    ELSE splitlines_from(text, k + 1, Append(cur, text[k]))

splitlines(text) == splitlines_from(text, 1, <<>>)

\* str.strip().split(): the maximal runs of non-blank characters.
RECURSIVE split_from(_, _, _)
split_from(raw, k, cur) ==
    IF k > Len(raw) THEN (IF cur = <<>> THEN <<>> ELSE <<cur>>)
    ELSE IF raw[k] = " "
         THEN (IF cur = <<>> THEN <<>> ELSE <<cur>>) \o split_from(raw, k + 1, <<>>)
    ELSE split_from(raw, k + 1, Append(cur, raw[k]))

split(raw) == split_from(raw, 1, <<>>)

\* The value of a non-empty run of decimal digits.
RECURSIVE Decimal(_)
Decimal(ds) ==
    IF ds = <<>> THEN 0
    ELSE 10 * Decimal(SubSeq(ds, 1, Len(ds) - 1)) + DigitValue(ds[Len(ds)])

\* int(str): an optional sign and at least one digit, else ValueError.
int(s) ==
    LET signed == Len(s) > 0 /\ s[1] \in {"+", "-"}
        body   == IF signed THEN Tail(s) ELSE s
    IN  IF Len(body) > 0 /\ \A k \in 1..Len(body) : body[k] \in Digits
        THEN Ok(IF signed /\ s[1] = "-" THEN 0 - Decimal(body) ELSE Decimal(body))
        ELSE Raise("ValueError", "invalid literal for int()", s)

\* All digits of the token glued together, instead of its first run only.
_number_re_search_all_digits(tok) ==
    LET hits == {k \in 1..Len(tok) : tok[k] \in Digits}
        keep[k \in 0..Len(tok)] ==
            IF k = 0 THEN <<>>
            ELSE IF k \in hits THEN Append(keep[k - 1], tok[k]) ELSE keep[k - 1]
    IN  [found |-> hits # {}, group |-> keep[Len(tok)]]

\* re.compile(r"\d+").search(tok): the first maximal run of digits of tok.
_number_re_search(tok) ==
    LET hits == {k \in 1..Len(tok) : tok[k] \in Digits}
    IN  IF hits = {} THEN [found |-> FALSE, group |-> <<>>]
        ELSE LET first == CHOOSE k \in hits : \A j \in hits : k <= j
                 last  == CHOOSE e \in first..Len(tok) :
                              /\ \A j \in first..e : tok[j] \in Digits
                              /\ (e = Len(tok) \/ tok[e + 1] \notin Digits)
             IN  [found |-> TRUE, group |-> SubSeq(tok, first, last)]

\* sorted(xs, reverse=True)
RECURSIVE sorted_reverse(_)
sorted_reverse(xs) ==
    IF xs = <<>> THEN <<>>
    ELSE LET m == CHOOSE k \in 1..Len(xs) :
                      /\ \A j \in 1..Len(xs) : xs[k] >= xs[j]
                      /\ \A j \in 1..(k - 1) : xs[j] < xs[k]
         IN  <<xs[m]>> \o sorted_reverse(SubSeq(xs, 1, m - 1) \o SubSeq(xs, m + 1, Len(xs)))

----------------------------------------------------------------------------
(* OCR helpers *)

\* cv2.imread: None for a missing or an undecodable file.
imread(image_path) ==
    IF image_path \in DOMAIN fs /\ fs[image_path].decodable
    THEN [none |-> FALSE, text |-> fs[image_path].text]
    ELSE [none |-> TRUE, text |-> <<>>]

RECURSIVE ocr_collect(_)
ocr_collect(raws) ==
    IF raws = <<>> THEN <<>>
    ELSE LET tokens == split(Head(raws))
         IN  (IF tokens # <<>> THEN <<tokens>> ELSE <<>>) \o ocr_collect(Tail(raws))

\* An unreadable image taken for an image without text.
_ocr_lines_empty_when_unreadable(image_path) ==
    LET img == imread(image_path)
    IN  Ok(ocr_collect(splitlines(img.text)))

_ocr_lines(image_path) ==
    LET img == imread(image_path)
    IN  IF img.none
        THEN Raise("ValueError", "Bild konnte nicht gelesen werden", image_path)
        ELSE Ok(ocr_collect(splitlines(img.text)))

RECURSIVE _extract_numbers(_)
_extract_numbers(tokens) ==
    IF tokens = <<>> THEN <<>>
    ELSE LET m == _number_re_search(Head(tokens))
         IN  (IF m.found THEN <<int(m.group).value>> ELSE <<>>)
                 \o _extract_numbers(Tail(tokens))

----------------------------------------------------------------------------
(* Parsers of the single statistics *)

\* The four columns taken one position too far to the left.
scoring_line_from_first(numbers, totals) ==
    IF Len(numbers) >= 5
    THEN [attack      |-> totals.attack + numbers[1],
          block       |-> totals.block + numbers[2],
          serve       |-> totals.serve + numbers[3],
          opp_error   |-> totals.opp_error + numbers[4],
          top_scorers |-> Append(totals.top_scorers,
                                 numbers[1] + numbers[2] + numbers[3] + numbers[4])]
    ELSE totals

\* One pass of the loop of _parse_scoring over an extracted number list.
scoring_line(numbers, totals) ==
    IF Len(numbers) >= 5
    THEN LET attack    == numbers[2]
             block     == numbers[3]
             serve     == numbers[4]
             opp_error == numbers[5]
         IN  [attack      |-> totals.attack + attack,
              block       |-> totals.block + block,
              serve       |-> totals.serve + serve,
              opp_error   |-> totals.opp_error + opp_error,
              top_scorers |-> Append(totals.top_scorers,
                                     attack + block + serve + opp_error)]
    ELSE totals

RECURSIVE scoring_loop(_, _)
scoring_loop(lines, totals) ==
    IF lines = <<>> THEN totals
    ELSE scoring_loop(Tail(lines), scoring_line(_extract_numbers(Head(lines)), totals))

\* The ranking taken over the distinct totals, so that a tie for the first
\* place puts the next lower total second.
top_scorers_of_distinct(top_scorers) ==
    LET S == Range(top_scorers)
        top1 == IF S = {} THEN 0 ELSE CHOOSE x \in S : \A y \in S : x >= y
        R == S \ {top1}
    IN  [top1 |-> top1,
         top2 |-> IF R = {} THEN 0 ELSE CHOOSE x \in R : \A y \in R : x >= y]

\* top1 and top2 of _parse_scoring.
top_scorers_of(top_scorers) ==
    LET top == sorted_reverse(top_scorers)
    IN  [top1 |-> IF top # <<>> THEN top[1] ELSE 0,
         top2 |-> IF Len(top) > 1 THEN top[2] ELSE 0]

\* The total without the opponent errors.
total_points_of_three(totals) == totals.attack + totals.block + totals.serve

total_points_of(totals) ==
    totals.attack + totals.block + totals.serve + totals.opp_error

_parse_scoring(image) ==
    LET ocr == _ocr_lines(image)
    IN  IF ~ocr.ok THEN ocr
        ELSE LET totals == scoring_loop(ocr.value,
                               [attack |-> 0, block |-> 0, serve |-> 0,
                                opp_error |-> 0, top_scorers |-> <<>>])
                 top == top_scorers_of(totals.top_scorers)
             IN  Ok([attack       |-> totals.attack,
                     block        |-> totals.block,
                     serve        |-> totals.serve,
                     opp_error    |-> totals.opp_error,
                     total_points |-> total_points_of(totals),
                     top_scorer_1 |-> top.top1,
                     top_scorer_2 |-> top.top2])

\* Every number of the line added, instead of the first one only.
RECURSIVE Sum(_)
Sum(xs) == IF xs = <<>> THEN 0 ELSE Head(xs) + Sum(Tail(xs))

simple_total_line_all(numbers, total) == total + Sum(numbers)

\* One pass of the loop of _parse_simple_total over an extracted number list.
simple_total_line(numbers, total) ==
    IF numbers # <<>> THEN total + numbers[1] ELSE total

RECURSIVE simple_total_loop(_, _)
simple_total_loop(lines, total) ==
    IF lines = <<>> THEN total
    ELSE simple_total_loop(Tail(lines),
                           simple_total_line(_extract_numbers(Head(lines)), total))

\* The exception of an unreadable image swallowed, the total left at 0.
_parse_simple_total_or_zero(image) ==
    LET ocr == _ocr_lines(image)
    IN  IF ~ocr.ok THEN Ok(0) ELSE Ok(simple_total_loop(ocr.value, 0))

_parse_simple_total(image) ==
    LET ocr == _ocr_lines(image)
    IN  IF ~ocr.ok THEN ocr ELSE Ok(simple_total_loop(ocr.value, 0))

TeamStats(scoring, dig, reception, set_total) ==
    [attack       |-> scoring.attack,
     block        |-> scoring.block,
     serve        |-> scoring.serve,
     opp_error    |-> scoring.opp_error,
     total_points |-> scoring.total_points,
     dig          |-> dig,
     reception    |-> reception,
     set          |-> set_total,
     top_scorer_1 |-> scoring.top_scorer_1,
     top_scorer_2 |-> scoring.top_scorer_2]

_parse_team(images) ==
    LET scoring == _parse_scoring(images["scoring"])
    IN  IF ~scoring.ok THEN scoring
        ELSE
    LET dig == _parse_simple_total(images["dig"])
    IN  IF ~dig.ok THEN dig
        ELSE
    LET reception == _parse_simple_total(images["reception"])
    IN  IF ~reception.ok THEN reception
        ELSE
    LET set_total == _parse_simple_total(images["set"])
    IN  IF ~set_total.ok THEN set_total
        ELSE Ok(TeamStats(scoring.value, dig.value, reception.value, set_total.value))

----------------------------------------------------------------------------
(* Processing of one match *)

\* match_dir / f"team?_{name}.png"
ImagePath(match_dir, team, name) == match_dir \o <<"/", team \o "_" \o name \o ".png">>

TeamImages(match_dir, team) ==
    [name \in Range(TEAM_SCREENS) |-> ImagePath(match_dir, team, name)]

\* The dig difference taken against the other team's reception.
match_row_mixed(team_a, team_b, label) ==
    [attack_diff       |-> team_a.attack - team_b.attack,
     block_diff        |-> team_a.block - team_b.block,
     serve_diff        |-> team_a.serve - team_b.serve,
     opp_error_diff    |-> team_a.opp_error - team_b.opp_error,
     total_points_diff |-> team_a.total_points - team_b.total_points,
     dig_diff          |-> team_a.dig - team_b.reception,
     reception_diff    |-> team_a.reception - team_b.reception,
     set_diff          |-> team_a.set - team_b.set,
     top_scorer_1_diff |-> team_a.top_scorer_1 - team_b.top_scorer_1,
     top_scorer_2_diff |-> team_a.top_scorer_2 - team_b.top_scorer_2,
     label             |-> label]

\* The dictionary `row` of _parse_match.
match_row(team_a, team_b, label) ==
    [attack_diff       |-> team_a.attack - team_b.attack,
     block_diff        |-> team_a.block - team_b.block,
     serve_diff        |-> team_a.serve - team_b.serve,
     opp_error_diff    |-> team_a.opp_error - team_b.opp_error,
     total_points_diff |-> team_a.total_points - team_b.total_points,
     dig_diff          |-> team_a.dig - team_b.dig,
     reception_diff    |-> team_a.reception - team_b.reception,
     set_diff          |-> team_a.set - team_b.set,
     top_scorer_1_diff |-> team_a.top_scorer_1 - team_b.top_scorer_1,
     top_scorer_2_diff |-> team_a.top_scorer_2 - team_b.top_scorer_2,
     label             |-> label]

\* Every value of row is an integer, so the test for a None value never raises.
_parse_match(match_dir, label) ==
    LET team_a_images == TeamImages(match_dir, "teamA")
        team_b_images == TeamImages(match_dir, "teamB")
        team_a == _parse_team(team_a_images)
    IN  IF ~team_a.ok THEN team_a
        ELSE LET team_b == _parse_team(team_b_images)
             IN  IF ~team_b.ok THEN team_b
                 ELSE Ok(match_row(team_a.value, team_b.value, label))

----------------------------------------------------------------------------
(* build_dataset *)

COLUMNS ==
    <<"attack_diff", "block_diff", "serve_diff", "opp_error_diff", "total_points_diff",
      "dig_diff", "reception_diff", "set_diff", "top_scorer_1_diff", "top_scorer_2_diff",
      "label">>

\* A specification without a colon read as "directory, label 0".
spec_split_default(spec) ==
    LET hits == {k \in 1..Len(spec) : spec[k] = ":"}
    IN  IF hits = {} THEN Ok([dir_name |-> spec, label_str |-> <<"0">>])
        ELSE LET k == CHOOSE c \in hits : \A j \in hits : c <= j
             IN  Ok([dir_name  |-> SubSeq(spec, 1, k - 1),
                     label_str |-> SubSeq(spec, k + 1, Len(spec))])

\* dir_name, label_str = spec.split(":", 1), with its except clause.
spec_split(spec) ==
    LET hits == {k \in 1..Len(spec) : spec[k] = ":"}
    IN  IF hits = {}
        THEN Raise("ValueError",
                   "Match-Spezifikation muss die Form 'verzeichnis:label' haben", spec)
        ELSE LET k == CHOOSE c \in hits : \A j \in hits : c <= j
             IN  Ok([dir_name  |-> SubSeq(spec, 1, k - 1),
                     label_str |-> SubSeq(spec, k + 1, Len(spec))])

\* The body of the loop of build_dataset up to the call of rows.append.
process_spec(spec) ==
    LET parts == spec_split(spec)
    IN  IF ~parts.ok THEN parts
        ELSE LET match_dir == parts.value.dir_name
                 label     == int(parts.value.label_str)
             IN  IF ~label.ok THEN label ELSE _parse_match(match_dir, label.value)

\* The new row put in front of the collected ones.
rows_prepend(collected, row) == <<row>> \o collected

\* rows.append(row)
rows_append(collected, row) == Append(collected, row)

\* One pass of the loop: the next specification is taken and processed.
build_dataset_loop ==
    /\ pc = "loop"
    /\ i < Len(match_specs)
    /\ i' = i + 1
    /\ LET row == process_spec(match_specs[i + 1])
       IN  IF row.ok
           THEN /\ rows' = rows_append(rows, row.value)
                /\ UNCHANGED <<pc, error>>
           ELSE /\ pc' = "raised"
                /\ error' = row.error
                /\ UNCHANGED rows
    /\ UNCHANGED <<fs, match_specs, output_file, arg, ret>>

\* After the loop: the DataFrame is built from rows and written.  Every row
\* has all COLUMNS, so the frame has no missing value.
build_dataset_to_csv ==
    /\ pc = "loop"
    /\ i = Len(match_specs)
    /\ output_file' = [exists |-> TRUE,
                       writes |-> output_file.writes + 1,
                       header |-> IF rows = <<>> THEN <<>> ELSE COLUMNS,
                       rows   |-> rows]
    /\ pc' = "done"
    /\ UNCHANGED <<fs, match_specs, i, rows, error, arg, ret>>

----------------------------------------------------------------------------
(* OCR texts the specifications draw their images from *)

RECURSIVE JoinLines(_)
JoinLines(raws) ==
    IF raws = <<>> THEN <<>>
    ELSE IF Len(raws) = 1 THEN raws[1]
    ELSE raws[1] \o <<"\n">> \o JoinLines(Tail(raws))

TextsOf(LineSet, n) == {JoinLines(raws) : raws \in SeqsUpTo(LineSet, n)}

Image(text) == [decodable |-> TRUE, text |-> text]

Undecodable == [decodable |-> FALSE, text |-> <<>>]

\* Player rows "9 a 3 1 4" of a scoring sheet.
PlayerLines ==
    {<<"9", " ", a, " ", "3", " ", "1", " ", "4">> : a \in {"1", "2"}}

\* Rows with more or fewer numbers, with noise tokens and with stray blanks.
NoisyScoringLines ==
    {<<"1", " ", "1", "0", " ", "5", " ", "3", " ", "2">>,
     <<"1", " ", "8", " ", "2", " ", "1", " ", "1">>,
     <<"9", " ", "2", " ", "3", " ", "1", " ", "4", " ", "8">>,
     <<"9", " ", "2", " ", "3", " ", "1">>,
     <<"N", "a", "m", "e", " ", "9", " ", "2", " ", "3", " ", "1", " ", "4">>,
     <<"9", " ", "2", " ", "x", " ", "1", " ", "4">>,
     <<"T", "o", "t", "a", "l">>,
     <<" ", " ", "9", " ", "6", " ", " ", "0", " ", "0", " ", "0", " ">>,
     <<" ">>,
     <<"7", "A", " ", "2", "%", " ", "n", "3", " ", "1", " ", "4", "B", "8">>}

ScoringLines == PlayerLines \cup NoisyScoringLines

MaxScoringLines == 3

ScoringTexts == TextsOf(ScoringLines, MaxScoringLines)

\* Rows of a dig, reception or set sheet.
SimpleLines ==
    {<<"4", " ", "1">>,
     <<"7">>,
     <<"0", " ", "5">>,
     <<"2", " ", "9", " ", "9">>,
     <<"T", "o", "t", "a", "l">>,
     <<"N", "o", " ", "x", "3", " ", "8">>}

MaxSimpleLines == 4

SimpleTexts == TextsOf(SimpleLines, MaxSimpleLines)

ExampleScoringText ==
    <<"1", " ", "1", "0", " ", "5", " ", "3", " ", "2", "\n", "1", " ", "8", " ", "2", " ", "1", " ", "1">>

ExampleSimpleText ==
    <<"4", " ", "1", "\n", "7", "\n", "0", " ", "5", "\n", "2", " ", "9", " ", "9">>

\* The seven sheets of one team: the texts of the four sheets that are read,
\* and one text for the attack, block and serve sheets.
TeamSheets(scoring, dig, reception, set_text, other) ==
    [name \in Range(TEAM_SCREENS) |->
        CASE name = "scoring"   -> Image(scoring)
          [] name = "dig"       -> Image(dig)
          [] name = "reception" -> Image(reception)
          [] name = "set"       -> Image(set_text)
          [] OTHER              -> Image(other)]

\* The files of one team of a match directory.
TeamFiles(match_dir, team, sheets) ==
    [p \in {ImagePath(match_dir, team, name) : name \in DOMAIN sheets} |->
        LET name == CHOOSE n \in DOMAIN sheets : ImagePath(match_dir, team, n) = p
        IN  sheets[name]]

Remove(files, path) == [p \in DOMAIN files \ {path} |-> files[p]]

----------------------------------------------------------------------------
(* Specification of the numeric extractor called on its own *)

TokenAlphabet == {"7", "A"}

MaxTokenLen == 3

MaxTokens == 2

ExampleTokens == {<<"1", "2", "%">>, <<"A", "1", "B", "2">>, <<"0", "7">>}

Tokens == (SeqsUpTo(TokenAlphabet, MaxTokenLen) \ {<<>>}) \cup ExampleTokens

Idle ==
    /\ match_specs = <<>>
    /\ i = 0
    /\ rows = <<>>
    /\ output_file = [exists |-> FALSE, writes |-> 0, header |-> <<>>, rows |-> <<>>]
    /\ error = NoError

InitExtract ==
    /\ Idle
    /\ fs = <<>>
    /\ arg \in SeqsUpTo(Tokens, MaxTokens)
    /\ ret = <<>>
    /\ pc = "call_extract_numbers"

CallExtractNumbers ==
    /\ pc = "call_extract_numbers"
    /\ ret' = _extract_numbers(arg)
    /\ pc' = "returned_extract_numbers"
    /\ UNCHANGED <<fs, match_specs, i, rows, output_file, error, arg>>

NextExtract == CallExtractNumbers

SpecExtract == InitExtract /\ [][NextExtract]_vars

HasDigit(tok) == \E k \in 1..Len(tok) : tok[k] \in Digits

\* The number a reader finds first when going through tok from the left.
RECURSIVE FirstRunValue(_, _, _)
FirstRunValue(tok, started, acc) ==
    IF tok = <<>> THEN acc
    ELSE IF Head(tok) \in Digits
         THEN FirstRunValue(Tail(tok), TRUE, 10 * acc + DigitValue(Head(tok)))
    ELSE IF started THEN acc
    ELSE FirstRunValue(Tail(tok), FALSE, acc)

DigitTokensUpTo(tokens, k) == {j \in 1..k : HasDigit(tokens[j])}

----------------------------------------------------------------------------
(* Specification of the parsers of one team called on their own: the team's *)
(* seven sheets with one of them drawn freely, or one of them unreadable.   *)

ParseDir == <<"m">>

BaseSheets ==
    TeamSheets(ExampleScoringText, ExampleSimpleText, <<"7">>,
               <<"2", " ", "9", "\n", "4", " ", "1">>, <<"5", " ", "5", " ", "5", " ", "5", " ", "5">>)

TextsFor(name) ==
    CASE name = "scoring" -> ScoringTexts
      [] name \in {"dig", "reception", "set"} -> SimpleTexts
      [] OTHER -> {<<>>, ExampleScoringText, ExampleSimpleText}

InitParse ==
    /\ Idle
    /\ \E name \in Range(TEAM_SCREENS) :
          /\ arg = ImagePath(ParseDir, "teamA", name)
          /\ \/ \E text \in TextsFor(name) :
                   fs = TeamFiles(ParseDir, "teamA", [BaseSheets EXCEPT ![name] = Image(text)])
             \/ fs = TeamFiles(ParseDir, "teamA", [BaseSheets EXCEPT ![name] = Undecodable])
             \/ fs = Remove(TeamFiles(ParseDir, "teamA", BaseSheets), arg)
    /\ ret = <<>>
    /\ pc = "call"

CallParseScoring ==
    /\ pc = "call"
    /\ ret' = _parse_scoring(arg)
    /\ pc' = "returned_parse_scoring"
    /\ UNCHANGED <<fs, match_specs, i, rows, output_file, error, arg>>

CallParseSimpleTotal ==
    /\ pc = "call"
    /\ ret' = _parse_simple_total(arg)
    /\ pc' = "returned_parse_simple_total"
    /\ UNCHANGED <<fs, match_specs, i, rows, output_file, error, arg>>

CallParseTeam ==
    /\ pc = "call"
    /\ ret' = _parse_team(TeamImages(ParseDir, "teamA"))
    /\ pc' = "returned_parse_team"
    /\ UNCHANGED <<fs, match_specs, i, rows, output_file, error, arg>>

NextParse == CallParseScoring \/ CallParseSimpleTotal \/ CallParseTeam

SpecParse == InitParse /\ [][NextParse]_vars

Readable(path) == path \in DOMAIN fs /\ fs[path].decodable

\* The number lists of the tokenized lines of a readable image.
NumbersOf(image) ==
    LET lines == _ocr_lines(image).value
    IN  [k \in 1..Len(lines) |-> _extract_numbers(lines[k])]

RECURSIVE SumOver(_, _)
SumOver(f, S) ==
    IF S = {} THEN 0
    ELSE LET x == CHOOSE y \in S : TRUE IN f[x] + SumOver(f, S \ {x})

Max(S) == CHOOSE x \in S : \A y \in S : x >= y

\* The qualifying lines of a scoring sheet and the column sums over them.
Qualifying(nums) == {k \in DOMAIN nums : Len(nums[k]) >= 5}

Column(nums, pos) == SumOver([k \in Qualifying(nums) |-> nums[k][pos + 1]], Qualifying(nums))

PlayerTotal(nums) ==
    [k \in Qualifying(nums) |-> nums[k][2] + nums[k][3] + nums[k][4] + nums[k][5]]

\* The sum of the first numbers of the lines that have a number.
FirstNumbers(nums) ==
    SumOver([k \in {j \in DOMAIN nums : nums[j] # <<>>} |-> nums[k][1]],
            {j \in DOMAIN nums : nums[j] # <<>>})

ScoringPath == ImagePath(ParseDir, "teamA", "scoring")

\* C6: whatever the lines of the scoring sheet are, the total_points the
\* scoring parser returns is attack + block + serve + opp_error of the same
\* result, and the TeamStats of _parse_team keeps that equality.
C6_TotalPoints ==
    (pc \in {"returned_parse_scoring", "returned_parse_team"} /\ ret.ok) =>
        ret.value.total_points =
            ret.value.attack + ret.value.block + ret.value.serve + ret.value.opp_error

C6_Witness ==
    /\ pc = "returned_parse_team"
    /\ ret.ok
    /\ ret.value.attack > 0 /\ ret.value.block > 0
    /\ ret.value.serve > 0 /\ ret.value.opp_error > 0
    /\ ret.value.total_points > ret.value.attack + ret.value.block + ret.value.serve

----------------------------------------------------------------------------
(* Specification of build_dataset: two match directories, complete or with  *)
(* one file missing or undecodable, and a list of specifications.           *)

OtherTeamSheets ==
    TeamSheets(<<"9", " ", "2", " ", "3", " ", "1", " ", "4">>, <<"7">>, <<"4", " ", "1">>, <<"0", " ", "5">>, <<>>)

ThirdTeamSheets ==
    TeamSheets(<<"9", " ", "1", " ", "3", " ", "1", " ", "4", "\n", "9", " ", "2", " ", "3", " ", "1", " ", "4", " ", "8">>, <<"2", " ", "9", " ", "9">>, <<"7">>, <<"7">>, ExampleSimpleText)

DatasetFiles ==
    TeamFiles(<<"a">>, "teamA", BaseSheets) @@ TeamFiles(<<"a">>, "teamB", OtherTeamSheets)
        @@ TeamFiles(<<"b">>, "teamA", ThirdTeamSheets) @@ TeamFiles(<<"b">>, "teamB", BaseSheets)

FileSystems ==
    {DatasetFiles}
        \cup {Remove(DatasetFiles, p) : p \in DOMAIN DatasetFiles}
        \cup {[DatasetFiles EXCEPT ![p] = Undecodable] : p \in DOMAIN DatasetFiles}

SpecStrings ==
    {<<"a", ":", "1">>,
     <<"b", ":", "0">>,
     <<"a", ":", "-", "1">>,
     <<"a">>,
     <<"a", ":", "x">>,
     <<"b", ":">>,
     <<"a", ":", "1", ":", "0">>,
     <<"c", ":", "1">>}

MaxSpecs == 2

Init ==
    /\ fs \in FileSystems
    /\ match_specs \in SeqsUpTo(SpecStrings, MaxSpecs)
    /\ i = 0
    /\ rows = <<>>
    /\ output_file = [exists |-> FALSE, writes |-> 0, header |-> <<>>, rows |-> <<>>]
    /\ error = NoError
    /\ pc = "loop"
    /\ arg = <<>>
    /\ ret = <<>>

Next == build_dataset_loop \/ build_dataset_to_csv

Spec == Init /\ [][Next]_vars

\* The two parts of a specification around its first colon.
HasColon(spec) == \E k \in 1..Len(spec) : spec[k] = ":"

FirstColon(spec) == CHOOSE k \in 1..Len(spec) : spec[k] = ":" /\ \A j \in 1..(k - 1) : spec[j] # ":"

DirPart(spec) == SubSeq(spec, 1, FirstColon(spec) - 1)

LabelPart(spec) == SubSeq(spec, FirstColon(spec) + 1, Len(spec))

Malformed(spec) == ~HasColon(spec) \/ ~int(LabelPart(spec)).ok

\* The images _parse_match opens, in the order in which it opens them.
OPENED == <<"scoring", "dig", "reception", "set">>

OpenedPaths(match_dir) ==
    [k \in 1..8 |-> IF k <= 4 THEN ImagePath(match_dir, "teamA", OPENED[k])
                    ELSE ImagePath(match_dir, "teamB", OPENED[k - 4])]

Unreadable(match_dir) == {k \in 1..8 : ~Readable(OpenedPaths(match_dir)[k])}

FirstUnreadable(match_dir) ==
    OpenedPaths(match_dir)[CHOOSE k \in Unreadable(match_dir) :
                               \A j \in Unreadable(match_dir) : k <= j]

ImageUnreadable(path) ==
    [type |-> "ValueError", msg |-> "Bild konnte nicht gelesen werden", subject |-> path]

\* The row of a well-formed specification whose images are readable.
RowOf(spec) == _parse_match(DirPart(spec), int(LabelPart(spec)).value).value

\* C1: a list with a malformed specification (no colon, or a label that is
\* no integer) at any position never reaches the end of build_dataset and
\* never gets the output file written; when the malformed specification is
\* taken, build_dataset leaves with a ValueError about it, with the rows of
\* the earlier specifications collected but written nowhere.
C1_MalformedSpecAborts ==
    /\ (\E k \in 1..Len(match_specs) : Malformed(match_specs[k])) =>
           /\ pc # "done"
           /\ ~output_file.exists /\ output_file.writes = 0
           /\ (pc = "loop" => i < Len(match_specs))
    /\ \A k \in 1..i :
           Malformed(match_specs[k]) =>
               /\ k = i
               /\ pc = "raised"
               /\ error.type = "ValueError"
               /\ error.subject = IF HasColon(match_specs[k]) THEN LabelPart(match_specs[k])
                                  ELSE match_specs[k]
               /\ Len(rows) = k - 1

C1_Witness ==
    /\ pc = "raised"
    /\ i = 2
    /\ Len(rows) = 1
    /\ ~Malformed(match_specs[1])
    /\ ~HasColon(match_specs[2])
    /\ ~output_file.exists

\* C2: when an image that a parser opens is missing or undecodable for a
\* match of the batch, the error _ocr_lines raises for the first such image
\* leaves build_dataset as it is: the match gets no row, no later
\* specification is taken and the output file is not written.
C2_UnreadableImagePropagates ==
    \A k \in 1..i :
        (~Malformed(match_specs[k]) /\ Unreadable(DirPart(match_specs[k])) # {}) =>
            /\ k = i
            /\ pc = "raised"
            /\ error = ImageUnreadable(FirstUnreadable(DirPart(match_specs[k])))
            /\ Len(rows) = k - 1
            /\ ~output_file.exists /\ output_file.writes = 0

C2_Witness ==
    /\ pc = "raised"
    /\ i = 2
    /\ Len(match_specs) = 2
    /\ Len(rows) = 1
    /\ ~Readable(ImagePath(<<"b">>, "teamA", "scoring"))
    /\ error = ImageUnreadable(ImagePath(<<"b">>, "teamA", "scoring"))

AllSheetPaths(match_dir) ==
    {ImagePath(match_dir, team, name) : team \in {"teamA", "teamB"}, name \in Range(TEAM_SCREENS)}

\* C3 as claimed: a match gets a row only if all 14 files of its directory,
\* the attack, block and serve sheets included, are readable.
C3_AllFourteenRequired ==
    \A k \in 1..Len(rows) :
        \A p \in AllSheetPaths(DirPart(match_specs[k])) : Readable(p)

\* C3 as amended: a match gets a row exactly if the 8 files teamA_<sheet>.png
\* and teamB_<sheet>.png for the sheets scoring, dig, reception and set are
\* readable; if one of them is missing or undecodable the match fails with
\* the image-unreadable error.  The attack, block and serve sheets are not
\* opened and their absence changes nothing.
C3_OpenedFilesRequired ==
    \A k \in 1..i :
        ~Malformed(match_specs[k]) =>
            IF Unreadable(DirPart(match_specs[k])) # {}
            THEN /\ Len(rows) < k
                 /\ pc = "raised"
                 /\ error.msg = "Bild konnte nicht gelesen werden"
            ELSE /\ Len(rows) >= k
                 /\ rows[k] = RowOf(match_specs[k])

C3_Witness ==
    /\ Len(rows) >= 1
    /\ ~Readable(ImagePath(DirPart(match_specs[1]), "teamA", "attack"))
    /\ rows[1] = RowOf(match_specs[1])

\* C4: when build_dataset succeeds on n specifications the written table has
\* n rows, row k being the row of the k-th specification; the table is written
\* once, after all specifications were processed, and not before.
C4_RowsInInputOrder ==
    /\ output_file.exists = (pc = "done")
    /\ output_file.writes = IF pc = "done" THEN 1 ELSE 0
    /\ Len(rows) <= i
    /\ \A k \in 1..Len(rows) : rows[k] = RowOf(match_specs[k])
    /\ pc = "done" =>
           /\ i = Len(match_specs)
           /\ Len(output_file.rows) = Len(match_specs)
           /\ \A k \in 1..Len(match_specs) : output_file.rows[k] = RowOf(match_specs[k])

C4_Witness ==
    /\ pc = "done"
    /\ Len(match_specs) = 2
    /\ output_file.exists
    /\ output_file.rows[1] # output_file.rows[2]
    /\ output_file.rows[2] = RowOf(match_specs[2])

----------------------------------------------------------------------------
(* Specification of _parse_match called on a directory and on the directory *)
(* with the two teams' images exchanged.                                    *)

MatchTeams ==
    {TeamSheets(sc, d, r, st, <<>>) :
        sc \in {ExampleScoringText, <<"9", " ", "2", " ", "3", " ", "1", " ", "4", "\n", "9", " ", "1", " ", "3", " ", "1", " ", "4">>, <<>>},
        d  \in {ExampleSimpleText, <<"7">>},
        r  \in {<<"7">>, <<"0", " ", "5", "\n", "2", " ", "9", " ", "9">>},
        st \in {<<"4", " ", "1">>, <<"T", "o", "t", "a", "l">>}}

InitMatch ==
    /\ Idle
    /\ \E X, Y \in MatchTeams :
          fs = TeamFiles(<<"m">>, "teamA", X) @@ TeamFiles(<<"m">>, "teamB", Y)
                   @@ TeamFiles(<<"w">>, "teamA", Y) @@ TeamFiles(<<"w">>, "teamB", X)
    /\ arg \in {0, 1}
    /\ ret = <<>>
    /\ pc = "call"

CallParseMatch ==
    /\ pc = "call"
    /\ ret' = [row |-> _parse_match(<<"m">>, arg), swapped |-> _parse_match(<<"w">>, 1 - arg)]
    /\ pc' = "returned_parse_match"
    /\ UNCHANGED <<fs, match_specs, i, rows, output_file, error, arg>>

NextMatch == CallParseMatch

SpecMatch == InitMatch /\ [][NextMatch]_vars

TeamField ==
    [f \in Range(COLUMNS) \ {"label"} |->
        CASE f = "attack_diff"       -> "attack"
          [] f = "block_diff"        -> "block"
          [] f = "serve_diff"        -> "serve"
          [] f = "opp_error_diff"    -> "opp_error"
          [] f = "total_points_diff" -> "total_points"
          [] f = "dig_diff"          -> "dig"
          [] f = "reception_diff"    -> "reception"
          [] f = "set_diff"          -> "set"
          [] f = "top_scorer_1_diff" -> "top_scorer_1"
          [] f = "top_scorer_2_diff" -> "top_scorer_2"]

\* C5: the row of team sets X against Y with label l and the row of Y
\* against X with label 1 - l have opposite values in each of the 10 diff
\* fields and complementary labels; each diff field is team A's value minus
\* team B's, and label is the value passed in.
C5_DifferenceSymmetry ==
    pc = "returned_parse_match" =>
        /\ ret.row.ok /\ ret.swapped.ok
        /\ LET team_a == _parse_team(TeamImages(<<"m">>, "teamA")).value
               team_b == _parse_team(TeamImages(<<"m">>, "teamB")).value
           IN  \A f \in DOMAIN TeamField :
                   /\ ret.row.value[f] = 0 - ret.swapped.value[f]
                   /\ ret.row.value[f] = team_a[TeamField[f]] - team_b[TeamField[f]]
        /\ ret.row.value.label = arg
        /\ ret.swapped.value.label = 1 - ret.row.value.label
        /\ DOMAIN ret.row.value = Range(COLUMNS)

C5_Witness ==
    /\ pc = "returned_parse_match"
    /\ ret.row.ok /\ ret.swapped.ok
    /\ ret.row.value.attack_diff > 0
    /\ ret.row.value.dig_diff < 0
    /\ ret.row.value.top_scorer_2_diff > 0
    /\ ret.row.value.label = 1
    /\ ret.swapped.value.label = 0
    /\ ret.swapped.value.attack_diff < 0

====
